---- MODULE Spec2Model ----
(***************************************************************************)
(* Model of the streaming event consumer of the Cortex Agents demo app:    *)
(* stream_events_realtime (modules/api/cortex_integration.py), the        *)
(* citation processor / display (modules/citations), the request-scoped   *)
(* session state (modules/config/session_state.py) and the turn            *)
(* materialisation of process_new_message_with_thread (modules/main).      *)
(*                                                                         *)
(* Text is a sequence of tokens.  A token is a plain word, a complete      *)
(* placeholder tag <cite>cs_x</cite>, or the link [n] that                 *)
(* process_citation_ids_in_text puts in place of a tag.                    *)
(***************************************************************************)
EXTENDS Integers, Sequences, FiniteSets, TLC

\* ------------------------------------------------------------------ bounds
MaxRequests == 2
MaxFrames == 3
BurstLength == 11

\* ------------------------------------------------------------------ data
ContentIndices == {0, 1}
CiteIds == {"cs_a", "cs_b"}
MessageIds == {"m1", "m2"}
NoIndex == -1
\* tool_use_id values of tool result frames; a frame may carry none
ToolUseIds == {"toolu_a", "toolu_b"}
NoToolUseId == ""
NoToolResult == [present |-> FALSE, status |-> "", req |-> 0]
NoMessageId == "none"

Word == [t |-> "w", id |-> "", n |-> 0, doc |-> "", src |-> ""]
\* a phrase of table_reference_patterns, such as "here is the table"
TablePhrase == [t |-> "phrase", id |-> "", n |-> 0, doc |-> "", src |-> ""]
CiteTag(cs_id) == [t |-> "cite", id |-> cs_id, n |-> 0, doc |-> "", src |-> ""]
\* the link shows num and title; src remembers the tag it replaced (history
\* only: no operator of the model reads it)
CitationLink(num, title, cs_id) ==
    [t |-> "link", id |-> "", n |-> num, doc |-> title, src |-> cs_id]
FallbackTitle == "#"

UnknownRequestId == <<"unknown", 0>>
HeaderRequestId(n) == <<"hdr", n>>
ResponseId(n) == <<"resp", n>>
NoResponseId == <<"none", 0>>

\* (request_id, content_index): the key of buffers and of the content map
ContentKey(request_id, content_index) == <<request_id, content_index>>

\* ------------------------------------------------------- insertion-ordered dict
\* A Python dict (iteration in insertion order) as a sequence of <<key, value>>.
RECURSIVE DictIndex(_, _)
DictIndex(d, k) ==
    IF d = <<>> THEN 0
    ELSE IF d[Len(d)][1] = k THEN Len(d)
    ELSE DictIndex(SubSeq(d, 1, Len(d) - 1), k)

DictHas(d, k) == DictIndex(d, k) # 0
DictGet(d, k, default) == IF DictHas(d, k) THEN d[DictIndex(d, k)][2] ELSE default
DictPut(d, k, v) ==
    IF DictHas(d, k) THEN [d EXCEPT ![DictIndex(d, k)] = <<k, v>>]
    ELSE Append(d, <<k, v>>)
DictKeys(d) == {d[i][1] : i \in 1..Len(d)}

\* ------------------------------------------------------------ citation text
TagIds(text) == {text[i].id : i \in {j \in 1..Len(text) : text[j].t = "cite"}}

\* 'cs_' in text or '<cite>' in text
HasCitationMarkup(text) == \E i \in 1..Len(text) : text[i].t = "cite"

\* cite_pattern = r'<cite>(cs_[a-f0-9-]+)</cite>': the ids the pattern accepts
HexCiteIds == {"cs_a", "cs_b"}

\* re.findall(cite_pattern, text): the ids of the complete tags, in order
RECURSIVE cite_matches(_)
cite_matches(text) ==
    IF text = <<>> THEN <<>>
    ELSE IF Head(text).t = "cite" /\ Head(text).id \in HexCiteIds
         THEN <<Head(text).id>> \o cite_matches(Tail(text))
    ELSE cite_matches(Tail(text))

\* processed_text.replace(full_cite_tag, citation_link)
ReplaceTag(text, cs_id, link) ==
    [i \in 1..Len(text) |->
        IF text[i].t = "cite" /\ text[i].id = cs_id THEN link ELSE text[i]]

\* ------------------------------------------------- request-scoped citation state
\* current_request_citation_mapping: 0 stands for "not in the mapping"
EmptyMapping == [c \in CiteIds |-> 0]

\* a counter that leaves a number out
CounterSkippingANumber(cnt) == cnt + 2

\* increment_request_citation_counter
increment_request_citation_counter(cnt) == cnt + 1

\* set_request_citation_number
set_request_citation_number(map, cs_id, num) == [map EXCEPT ![cs_id] = num]

\* a number handed out without looking the id up in the mapping first
AssignWithoutLookup(map, cnt, cs_id) ==
    <<cnt + 1, [map EXCEPT ![cs_id] = cnt + 1], cnt + 1>>

\* get_or_assign_citation_number, as <<number, mapping, counter>>
get_or_assign_citation_number(map, cnt, cs_id) ==
    IF map[cs_id] # 0 THEN <<map[cs_id], map, cnt>>
    ELSE LET num == increment_request_citation_counter(cnt)
         IN  <<num, set_request_citation_number(map, cs_id, num), num>>

\* reset_request_citations, as <<mapping, counter>>
reset_request_citations == <<EmptyMapping, 0>>

\* tool_result_citations / thread_tool_citations[thread]: citation data by id
NoCitationData == [present |-> FALSE, doc_id |-> FALSE, doc_title |-> ""]
CitationData(has_doc_id, title) ==
    [present |-> TRUE, doc_id |-> has_doc_id, doc_title |-> title]
NoToolCitations == [c \in CiteIds |-> NoCitationData]

\* add_tool_citation + add_thread_tool_citation (one thread is active)
add_tool_citation(cits, cs_id, data) == [cits EXCEPT ![cs_id] = data]

\* process_citation_ids_in_text: the loop over cite_matches
RECURSIVE ProcessMatches(_, _, _, _, _)
ProcessMatches(matches, text, map, cnt, cits) ==
    IF matches = <<>> THEN [text |-> text, mapping |-> map, counter |-> cnt]
    ELSE LET cs_id == Head(matches)
             citation_num == IF map[cs_id] # 0 THEN map[cs_id]
                             ELSE increment_request_citation_counter(cnt)
             map2 == IF map[cs_id] # 0 THEN map
                     ELSE set_request_citation_number(map, cs_id, citation_num)
             cnt2 == IF map[cs_id] # 0 THEN cnt ELSE citation_num
             doc_title == IF cits[cs_id].present /\ cits[cs_id].doc_title # ""
                          THEN cits[cs_id].doc_title ELSE FallbackTitle
         IN  ProcessMatches(Tail(matches),
                            ReplaceTag(text, cs_id, CitationLink(citation_num, doc_title, cs_id)),
                            map2, cnt2, cits)

process_citation_ids_in_text(text, map, cnt, cits) ==
    ProcessMatches(cite_matches(text), text, map, cnt, cits)

\* ------------------------------------------------------------------ state
VARIABLES
    \* st.session_state, kept across requests
    content_map,            \* streaming_content_map: key -> rendered slot
    request_tables,         \* response_state.request_tables (insertion-ordered)
    request_charts,         \* response_state.request_charts (insertion-ordered)
    current_response_tables, \* response_state.current_response_tables (legacy list)
    current_response_charts, \* response_state.current_response_charts (legacy list)
    request_table_referenced, \* response_state.request_table_referenced: ids flagged True
    debug_consolidated_response, \* debug_state.debug_consolidated_response holds data
    current_response_id,    \* response_state.current_response_id
    current_assistant_message_id,
    citation_mapping,       \* tool_state.current_request_citation_mapping
    citation_counter,       \* tool_state.current_request_citation_counter
    tool_result_citations,  \* tool_state.tool_result_citations
    thread_messages,        \* thread_state.thread_messages (assistant turns)
    thread_tool_results,    \* tool_state.thread_tool_results of the active thread
    streaming_citations,    \* tool_state.streaming_citations (legacy list)
    \* locals of one call of stream_events_realtime
    debug_mode,             \* the debug_mode argument of the call
    current_request_id,
    buffers,                \* defaultdict(str), insertion-ordered
    bot_text_message,
    agent_is_reevaluating,
    highest_content_index,
    active_content_indices,
    thinking_status_set,
    status_collapsed_on_response,
    thinking_placeholders,
    status,                 \* single_status_container: label and state
    missing_table_warning,  \* the "Table Reference Detected" warning is on the page
    \* control
    pc,                     \* "idle" | "loop" | "returned"
    request_no,             \* how many requests were started
    nframes,                \* frames dispatched by the running stream
    final_text,             \* the value stream_events_realtime returned
    \* history of the running request, for stating the properties
    ended_by,               \* how the stream of this request ended
    error_event_seen,       \* a response.error / error frame was dispatched
    annotated,              \* ids a valid text annotation named
    arrived_tables,         \* tables stored by the frames of this request, in order
    arrived_charts,         \* charts stored by the frames of this request, in order
    received_message_id     \* message id of the last metadata frame of this request

session_vars == <<content_map, request_tables, request_charts, current_response_tables,
                  current_response_charts, request_table_referenced,
                  debug_consolidated_response, current_response_id,
                  current_assistant_message_id, citation_mapping, citation_counter,
                  tool_result_citations, thread_messages, thread_tool_results,
                  streaming_citations>>
local_vars == <<debug_mode, current_request_id, buffers, bot_text_message, agent_is_reevaluating,
                highest_content_index, active_content_indices, thinking_status_set,
                status_collapsed_on_response, thinking_placeholders, status,
                missing_table_warning>>
control_vars == <<pc, request_no, nframes, final_text>>
history_vars == <<ended_by, error_event_seen, annotated, arrived_tables, arrived_charts,
                  received_message_id>>
vars == <<session_vars, local_vars, control_vars, history_vars>>

RequestIds == {UnknownRequestId} \cup {HeaderRequestId(n) : n \in 1..MaxRequests}
AllKeys == RequestIds \X ContentIndices

\* a slot of the content map: absent (no placeholder was created), or a
\* placeholder with what was last rendered into it
AbsentSlot == [kind |-> "absent", body |-> <<>>]
EmptySlot == [kind |-> "empty", body |-> <<>>]
MarkdownSlot(text) == [kind |-> "markdown", body |-> text]
TableSlot(table) == [kind |-> "table", body |-> <<table>>]
ChartSlot(chart) == [kind |-> "chart", body |-> <<chart>>]

StatusProcessing == [label |-> "Processing request...", state |-> "running"]
StatusDelivering == [label |-> "Processing complete - delivering response", state |-> "complete"]
StatusThinking == [label |-> "Agent is thinking...", state |-> "running"]
StatusToolComplete == [label |-> "Tool Complete", state |-> "running"]
StatusToolFailed == [label |-> "Tool Failed", state |-> "error"]
StatusError == [label |-> "Error", state |-> "error"]
StatusFailed == [label |-> "Request failed", state |-> "error"]
StatusCompleted == [label |-> "Request completed", state |-> "complete"]

Max(a, b) == IF a >= b THEN a ELSE b

Init ==
    /\ content_map = [k \in AllKeys |-> AbsentSlot]
    /\ request_tables = <<>>
    /\ request_charts = <<>>
    /\ current_response_tables = <<>>
    /\ current_response_charts = <<>>
    /\ request_table_referenced = {}
    /\ debug_consolidated_response = FALSE
    /\ debug_mode = FALSE
    /\ current_response_id = NoResponseId
    /\ current_assistant_message_id = NoMessageId
    /\ citation_mapping = EmptyMapping
    /\ citation_counter = 0
    /\ tool_result_citations = NoToolCitations
    /\ thread_messages = <<>>
    /\ thread_tool_results = [t \in ToolUseIds |-> NoToolResult]
    /\ streaming_citations = <<>>
    /\ current_request_id = UnknownRequestId
    /\ buffers = <<>>
    /\ bot_text_message = <<>>
    /\ agent_is_reevaluating = FALSE
    /\ highest_content_index = NoIndex
    /\ active_content_indices = {}
    /\ thinking_status_set = FALSE
    /\ status_collapsed_on_response = FALSE
    /\ thinking_placeholders = {}
    /\ status = StatusProcessing
    /\ missing_table_warning = FALSE
    /\ pc = "idle"
    /\ request_no = 0
    /\ nframes = 0
    /\ final_text = <<>>
    /\ ended_by = "none"
    /\ error_event_seen = FALSE
    /\ annotated = {}
    /\ arrived_tables = <<>>
    /\ arrived_charts = <<>>
    /\ received_message_id = NoMessageId

\* ------------------------------------------------------------ start of a request
\* process_new_message_with_thread up to the call, and the setup of
\* stream_events_realtime before its try block.  reset_citation_numbering
\* stores a fresh "resp_<ms>" id in current_response_id, after the header id.
\* a setup that stores the response id and keeps the numbering of the last request
KeepCitationNumbering(n) == <<ResponseId(n), <<citation_mapping, citation_counter>>>>

reset_citation_numbering(n) == <<ResponseId(n), reset_request_citations>>

StartRequest(has_header, debug) ==
    /\ pc = "idle"
    /\ request_no < MaxRequests
    /\ debug_mode' = debug
    /\ LET n == request_no + 1
           r == reset_citation_numbering(n)
       IN  /\ request_no' = n
           /\ current_request_id' = IF has_header THEN HeaderRequestId(n) ELSE UnknownRequestId
           /\ current_response_id' = r[1]
           /\ citation_mapping' = r[2][1]
           /\ citation_counter' = r[2][2]
    /\ buffers' = <<>>
    /\ bot_text_message' = <<>>
    /\ agent_is_reevaluating' = FALSE
    /\ highest_content_index' = NoIndex
    /\ active_content_indices' = {}
    /\ thinking_status_set' = FALSE
    /\ status_collapsed_on_response' = FALSE
    /\ thinking_placeholders' = {}
    /\ status' = StatusProcessing
    /\ missing_table_warning' = FALSE
    /\ pc' = "loop"
    /\ nframes' = 0
    /\ final_text' = <<>>
    /\ ended_by' = "none"
    /\ error_event_seen' = FALSE
    /\ annotated' = {}
    /\ arrived_tables' = <<>>
    /\ arrived_charts' = <<>>
    /\ received_message_id' = NoMessageId
    /\ UNCHANGED <<thread_tool_results, streaming_citations,
                   content_map, request_tables, request_charts, current_response_tables,
                   current_response_charts, request_table_referenced,
                   debug_consolidated_response,
                   current_assistant_message_id, tool_result_citations, thread_messages>>

\* ------------------------------------------------------------ frames of the loop
InLoop == pc = "loop" /\ nframes < MaxFrames
Dispatched == nframes' = nframes + 1 /\ UNCHANGED <<pc, request_no, final_text, ended_by>>

\* get_content_container(key): create the placeholder when the key is new
get_content_container(cm, key) ==
    IF cm[key].kind = "absent" THEN [cm EXCEPT ![key] = EmptySlot] ELSE cm

\* case "response.status"
StatusEvent(status_type) ==
    /\ InLoop
    /\ agent_is_reevaluating' =
         (IF status_type = "reevaluating_plan" THEN TRUE ELSE agent_is_reevaluating)
    /\ Dispatched
    /\ UNCHANGED <<debug_mode,
                   missing_table_warning,
                   session_vars, current_request_id, buffers, bot_text_message,
                   highest_content_index, active_content_indices, thinking_status_set,
                   status_collapsed_on_response, thinking_placeholders, status,
                   history_vars>>

\* a clear by content index alone, over every request of the session
ClearedKeysOfEveryRequest(request_id, indices) == {k \in AllKeys : k[2] \in indices}

\* the re-evaluation clear of case "response.text.delta": the keys it empties
ClearedKeys(request_id, indices) == {ContentKey(request_id, i) : i \in indices}

RECURSIVE ClearBuffers(_, _)
ClearBuffers(bufs, keys) ==
    IF bufs = <<>> THEN <<>>
    ELSE ClearBuffers(SubSeq(bufs, 1, Len(bufs) - 1), keys)
         \o <<IF bufs[Len(bufs)][1] \in keys
              THEN <<bufs[Len(bufs)][1], <<>>>> ELSE bufs[Len(bufs)]>>

\* case "response.text.delta"
\* _detect_and_handle_table_references(data.text): the delta holds one of the
\* table reference phrases
detect_table_reference(text) == \E i \in 1..Len(text) : text[i] = TablePhrase

\* a clear that any text delta triggers while the flag is set
ClearsOnAnyIndex(reevaluating, content_index, highest) == reevaluating

\* "Clear old content when agent starts streaming improved response": the
\* condition of the clear
starts_improved_response(reevaluating, content_index, highest) ==
    reevaluating /\ content_index > highest

TextDelta(content_index, text) ==
    /\ InLoop
    /\ LET content_key == ContentKey(current_request_id, content_index)
           clearing == starts_improved_response(agent_is_reevaluating, content_index,
                                                highest_content_index)
           old_keys == ClearedKeys(current_request_id, active_content_indices)
           cm1 == IF clearing
                  THEN [k \in AllKeys |-> IF k \in old_keys THEN EmptySlot ELSE content_map[k]]
                  ELSE content_map
           buf1 == IF clearing THEN ClearBuffers(buffers, old_keys) ELSE buffers
           buf2 == DictPut(buf1, content_key, DictGet(buf1, content_key, <<>>) \o text)
       IN  /\ thinking_placeholders' =
                (IF clearing THEN thinking_placeholders \ old_keys ELSE thinking_placeholders)
           /\ active_content_indices' =
                (IF clearing THEN {} ELSE active_content_indices) \cup {content_index}
           /\ bot_text_message' = (IF clearing THEN <<>> ELSE bot_text_message) \o text
           /\ agent_is_reevaluating' = (IF clearing THEN FALSE ELSE agent_is_reevaluating)
           /\ highest_content_index' = Max(highest_content_index, content_index)
           /\ buffers' = buf2
           /\ content_map' = [get_content_container(cm1, content_key) EXCEPT
                                ![content_key] = MarkdownSlot(DictGet(buf2, content_key, <<>>))]
    /\ request_table_referenced' =
         (IF detect_table_reference(text)
          THEN request_table_referenced \cup {current_response_id}
          ELSE request_table_referenced)
    /\ status' = (IF status_collapsed_on_response THEN status ELSE StatusDelivering)
    /\ status_collapsed_on_response' = TRUE
    /\ Dispatched
    /\ UNCHANGED <<debug_consolidated_response, debug_mode,
                   request_tables, request_charts, current_response_tables,
                   current_response_charts, current_response_id,
                   current_assistant_message_id, citation_mapping, citation_counter,
                   tool_result_citations, thread_messages, current_request_id,
                   thinking_status_set, missing_table_warning, history_vars,
                   thread_tool_results, streaming_citations>>

\* case "response.thinking.delta"
\* a thinking delta that updates the status container on every frame
ThinkingDeltaUpdatingEveryTime(content_index, text) ==
    /\ InLoop
    /\ LET thinking_key == ContentKey(current_request_id, content_index)
       IN  /\ buffers' = DictPut(buffers, thinking_key,
                                 DictGet(buffers, thinking_key, <<>>) \o text)
           /\ thinking_placeholders' = thinking_placeholders \cup {thinking_key}
    /\ status' = StatusThinking
    /\ thinking_status_set' = TRUE
    /\ Dispatched
    /\ UNCHANGED <<debug_mode,
                   missing_table_warning,
                   session_vars, current_request_id, bot_text_message,
                   agent_is_reevaluating, highest_content_index, active_content_indices,
                   status_collapsed_on_response, history_vars>>

ThinkingDelta(content_index, text) ==
    /\ InLoop
    /\ LET thinking_key == ContentKey(current_request_id, content_index)
       IN  /\ buffers' = DictPut(buffers, thinking_key,
                                 DictGet(buffers, thinking_key, <<>>) \o text)
           /\ thinking_placeholders' = thinking_placeholders \cup {thinking_key}
    /\ status' = (IF thinking_status_set THEN status ELSE StatusThinking)
    /\ thinking_status_set' = TRUE
    /\ Dispatched
    /\ UNCHANGED <<debug_mode,
                   missing_table_warning,
                   session_vars, current_request_id, bot_text_message,
                   agent_is_reevaluating, highest_content_index, active_content_indices,
                   status_collapsed_on_response, history_vars>>

\* an except block that keeps the status of the last update and drops the text
ExceptReturnSilently(how) ==
    /\ status' = status
    /\ final_text' = <<>>
    /\ pc' = "returned"
    /\ ended_by' = how
    /\ nframes' = nframes + 1
    /\ UNCHANGED request_no

\* the except block of stream_events_realtime, then its return statement:
\* the partial effects of the frame that raised stay, nothing is finalized
ExceptReturn(how) ==
    /\ status' = StatusFailed
    /\ final_text' = bot_text_message
    /\ pc' = "returned"
    /\ ended_by' = how
    /\ nframes' = nframes + 1
    /\ UNCHANGED request_no

\* case "response.text.annotation"
\* handle_streaming_citation: an annotation with doc_id and doc_title is
\* appended to the legacy list as a documentation citation
handle_streaming_citation(collected, has_title, has_doc_id) ==
    IF has_doc_id /\ has_title
    THEN Append(collected, [citation_type |-> "documentation",
                            doc_title |-> "annotation title"])
    ELSE collected

TextAnnotation(search_result_id, has_title, has_doc_id) ==
    /\ InLoop
    /\ IF has_title
       THEN LET r == get_or_assign_citation_number(citation_mapping, citation_counter,
                                                   search_result_id)
            IN  /\ tool_result_citations' =
                     add_tool_citation(tool_result_citations, search_result_id,
                                       CitationData(has_doc_id, "annotation title"))
                /\ citation_mapping' = r[2]
                /\ citation_counter' = r[3]
                /\ annotated' = annotated \cup {search_result_id}
       ELSE UNCHANGED <<tool_result_citations, citation_mapping, citation_counter, annotated>>
    /\ streaming_citations' = handle_streaming_citation(streaming_citations,
                                                        has_title, has_doc_id)
    /\ Dispatched
    /\ UNCHANGED <<debug_consolidated_response,
                   current_response_tables, current_response_charts, request_table_referenced,
                   content_map, request_tables, request_charts, current_response_id,
                   current_assistant_message_id, thread_messages, local_vars,
                   error_event_seen, arrived_tables, arrived_charts,
                   thread_tool_results, received_message_id>>

\* add_request_table / add_request_chart
\* "Protect against memory issues - limit table accumulation": the legacy
\* list is cut to its last entries once it holds more than the limit
AccumulationLimit == 10
KeptAfterTrim == 5
TrimLegacy(legacy) ==
    IF Len(legacy) > AccumulationLimit
    THEN SubSeq(legacy, Len(legacy) - KeptAfterTrim + 1, Len(legacy))
    ELSE legacy

add_request_item(items, target_request, item) ==
    DictPut(items, target_request, Append(DictGet(items, target_request, <<>>), item))

\* get_request_tables / get_request_charts
get_request_items(items, request_id) == DictGet(items, request_id, <<>>)

\* the payload of a table or chart frame, with the request that received it
\* a store that keeps nothing but the result it was last given
KeepOnlyLastToolResult(results, tool_use_id, result) ==
    [t \in ToolUseIds |-> IF t = tool_use_id THEN result ELSE NoToolResult]

\* add_thread_tool_result / get_thread_tool_result, for the active thread
add_thread_tool_result(results, tool_use_id, result) ==
    [results EXCEPT ![tool_use_id] = result]

get_thread_tool_result(results, tool_use_id) == results[tool_use_id]

Payload(data) == [data |-> data, req |-> request_no]

\* case "response.tool_result": citation entries of the content array, an
\* embedded result set (_process_embedded_table_data), the status label
tool_result(citation_ids, embedded_table, tool_status, tool_use_id, debug) ==
    /\ InLoop
    /\ thread_tool_results' =
         (IF tool_use_id # NoToolUseId
          THEN add_thread_tool_result(thread_tool_results, tool_use_id,
                                      [present |-> TRUE, status |-> tool_status,
                                       req |-> request_no])
          ELSE thread_tool_results)
    /\ tool_result_citations' =
         [c \in CiteIds |-> IF c \in citation_ids
                            THEN CitationData(TRUE, "tool title")
                            ELSE tool_result_citations[c]]
    /\ request_tables' =
         (IF embedded_table
          THEN add_request_item(request_tables, current_response_id, Payload("embedded"))
          ELSE request_tables)
    /\ current_response_tables' =
         (IF embedded_table THEN Append(current_response_tables, Payload("embedded"))
          ELSE current_response_tables)
    /\ arrived_tables' =
         (IF embedded_table THEN Append(arrived_tables, Payload("embedded"))
          ELSE arrived_tables)
    /\ status' = (IF tool_status = "error" THEN StatusToolFailed ELSE StatusToolComplete)
    /\ Dispatched
    /\ UNCHANGED <<debug_consolidated_response, debug_mode,
                   content_map, request_charts, current_response_charts,
                   request_table_referenced, missing_table_warning, current_response_id,
                   current_assistant_message_id, citation_mapping, citation_counter,
                   thread_messages, current_request_id, buffers, bot_text_message,
                   agent_is_reevaluating, highest_content_index, active_content_indices,
                   thinking_status_set, status_collapsed_on_response,
                   thinking_placeholders, error_event_seen, annotated, arrived_charts,
                   streaming_citations, received_message_id>>

ToolResult(citation_ids, embedded_table, tool_status) ==
    tool_result(citation_ids, embedded_table, tool_status, NoToolUseId, debug_mode)

\* a tool result frame that carries a tool_use_id
ToolResultFor(tool_use_id, tool_status) ==
    tool_result({}, FALSE, tool_status, tool_use_id, debug_mode)

\* case "response.table": _handle_table_event
TableEvent(content_index, data) ==
    /\ InLoop
    /\ LET table_key == ContentKey(current_request_id, content_index)
       IN  content_map' = [content_map EXCEPT ![table_key] = TableSlot(Payload(data))]
    /\ request_tables' = add_request_item(request_tables, current_request_id, Payload(data))
    /\ current_response_tables' = Append(TrimLegacy(current_response_tables), Payload(data))
    /\ arrived_tables' = Append(arrived_tables, Payload(data))
    /\ Dispatched
    /\ UNCHANGED <<debug_consolidated_response,
                   request_charts, current_response_charts, request_table_referenced,
                   current_response_id, current_assistant_message_id,
                   citation_mapping, citation_counter, tool_result_citations,
                   thread_messages, local_vars, error_event_seen, annotated,
                   arrived_charts,
                   thread_tool_results, streaming_citations, received_message_id>>

\* a run of count consecutive response.table frames with the same content
\* index: _handle_table_event once per frame
RECURSIVE table_events(_, _, _, _, _)
table_events(items, legacy, request_id, item, count) ==
    IF count = 0 THEN <<items, legacy>>
    ELSE table_events(add_request_item(items, request_id, item),
                      Append(TrimLegacy(legacy), item), request_id, item, count - 1)

TableFrames(content_index, data, count) ==
    /\ InLoop
    /\ LET table_key == ContentKey(current_request_id, content_index)
       IN  content_map' = [content_map EXCEPT ![table_key] = TableSlot(Payload(data))]
    /\ LET r == table_events(request_tables, current_response_tables, current_request_id,
                             Payload(data), count)
       IN  /\ request_tables' = r[1]
           /\ current_response_tables' = r[2]
    /\ arrived_tables' = arrived_tables \o [i \in 1..count |-> Payload(data)]
    /\ Dispatched
    /\ UNCHANGED <<debug_consolidated_response,
                   request_charts, current_response_charts, request_table_referenced,
                   current_response_id, current_assistant_message_id,
                   citation_mapping, citation_counter, tool_result_citations,
                   thread_messages, local_vars, error_event_seen, annotated,
                   arrived_charts,
                   thread_tool_results, streaming_citations, received_message_id>>

\* case "response.chart": _handle_chart_event
ChartEvent(content_index, spec) ==
    /\ InLoop
    /\ LET chart_key == ContentKey(current_request_id, content_index)
       IN  content_map' = [content_map EXCEPT ![chart_key] = ChartSlot(Payload(spec))]
    /\ request_charts' = add_request_item(request_charts, current_request_id, Payload(spec))
    /\ current_response_charts' = Append(TrimLegacy(current_response_charts), Payload(spec))
    /\ arrived_charts' = Append(arrived_charts, Payload(spec))
    /\ Dispatched
    /\ UNCHANGED <<debug_consolidated_response,
                   request_tables, current_response_tables, request_table_referenced,
                   current_response_id, current_assistant_message_id,
                   citation_mapping, citation_counter, tool_result_citations,
                   thread_messages, local_vars, error_event_seen, annotated,
                   arrived_tables,
                   thread_tool_results, streaming_citations, received_message_id>>

\* a run of count consecutive response.chart frames: _handle_chart_event once
\* per frame
ChartFrames(content_index, spec, count) ==
    /\ InLoop
    /\ LET chart_key == ContentKey(current_request_id, content_index)
       IN  content_map' = [content_map EXCEPT ![chart_key] = ChartSlot(Payload(spec))]
    /\ LET r == table_events(request_charts, current_response_charts, current_request_id,
                             Payload(spec), count)
       IN  /\ request_charts' = r[1]
           /\ current_response_charts' = r[2]
    /\ arrived_charts' = arrived_charts \o [i \in 1..count |-> Payload(spec)]
    /\ Dispatched
    /\ UNCHANGED <<debug_consolidated_response,
                   request_tables, current_response_tables, request_table_referenced,
                   current_response_id, current_assistant_message_id,
                   citation_mapping, citation_counter, tool_result_citations,
                   thread_messages, local_vars, error_event_seen, annotated,
                   arrived_tables,
                   thread_tool_results, streaming_citations, received_message_id>>

\* case "response.tool_result.analyst.delta": content_map[analyst_key] is a
\* plain lookup, a KeyError when no placeholder was created for the key
AnalystDelta(content_index, delta) ==
    /\ InLoop
    /\ LET analyst_key == ContentKey(current_request_id, content_index)
           buf2 == DictPut(buffers, analyst_key, DictGet(buffers, analyst_key, <<>>) \o delta)
       IN  /\ buffers' = buf2
           /\ IF content_map[analyst_key].kind = "absent"
              THEN /\ ExceptReturn("exception")
                   /\ UNCHANGED content_map
              ELSE /\ content_map' = [content_map EXCEPT
                                        ![analyst_key] = MarkdownSlot(DictGet(buf2, analyst_key, <<>>))]
                   /\ Dispatched
                   /\ UNCHANGED status
    /\ UNCHANGED <<debug_consolidated_response, debug_mode,
                   current_response_tables, current_response_charts, request_table_referenced, missing_table_warning,
                   request_tables, request_charts, current_response_id,
                   current_assistant_message_id, citation_mapping, citation_counter,
                   tool_result_citations, thread_messages, current_request_id,
                   bot_text_message, agent_is_reevaluating, highest_content_index,
                   active_content_indices, thinking_status_set,
                   status_collapsed_on_response, thinking_placeholders,
                   error_event_seen, annotated, arrived_tables, arrived_charts,
                   thread_tool_results, streaming_citations, received_message_id>>

\* case "response.tool_result.sql_explanation.delta": the delta is added to
\* the buffer of its key and shown as code inside the status container
SqlExplanationDelta(content_index, delta) ==
    /\ InLoop
    /\ LET explanation_key == ContentKey(current_request_id, content_index)
       IN  buffers' = (IF delta # <<>>
                       THEN DictPut(buffers, explanation_key,
                                    DictGet(buffers, explanation_key, <<>>) \o delta)
                       ELSE buffers)
    /\ Dispatched
    /\ UNCHANGED <<session_vars, debug_mode, current_request_id, bot_text_message,
                   agent_is_reevaluating, highest_content_index, active_content_indices,
                   thinking_status_set, status_collapsed_on_response,
                   thinking_placeholders, status, missing_table_warning,
                   error_event_seen, annotated, arrived_tables, arrived_charts,
                   received_message_id>>

\* case "metadata"
Metadata(message_id) ==
    /\ InLoop
    /\ current_assistant_message_id' = message_id
    /\ received_message_id' = message_id
    /\ Dispatched
    /\ UNCHANGED <<debug_consolidated_response,
                   current_response_tables, current_response_charts, request_table_referenced,
                   content_map, request_tables, request_charts, current_response_id,
                   citation_mapping, citation_counter, tool_result_citations,
                   thread_messages, local_vars, ended_by, error_event_seen, annotated,
                   arrived_tables, arrived_charts,
                   thread_tool_results, streaming_citations>>

\* response.error handled like the top-level error frame: with a break
ResponseErrorWithBreak ==
    /\ InLoop
    /\ status' = StatusCompleted
    /\ error_event_seen' = TRUE
    /\ pc' = "returned"
    /\ ended_by' = "end"
    /\ final_text' = bot_text_message
    /\ nframes' = nframes + 1
    /\ UNCHANGED <<debug_mode,
                   missing_table_warning,
                   session_vars, current_request_id, buffers, bot_text_message,
                   agent_is_reevaluating, highest_content_index, active_content_indices,
                   thinking_status_set, status_collapsed_on_response,
                   thinking_placeholders, request_no, annotated, arrived_tables,
                   arrived_charts,
                   received_message_id>>

\* case "response.error": _handle_error_event; the loop goes on
ResponseError ==
    /\ InLoop
    /\ status' = StatusFailed
    /\ error_event_seen' = TRUE
    /\ Dispatched
    /\ UNCHANGED <<debug_mode,
                   missing_table_warning,
                   session_vars, current_request_id, buffers, bot_text_message,
                   agent_is_reevaluating, highest_content_index, active_content_indices,
                   thinking_status_set, status_collapsed_on_response,
                   thinking_placeholders, annotated, arrived_tables, arrived_charts,
                   received_message_id>>

\* a parse error that is not caught at the frame and reaches the except block
SkippedFrameRaising ==
    /\ InLoop
    /\ ExceptReturn("exception")
    /\ UNCHANGED <<debug_mode,
                   session_vars, current_request_id, buffers, bot_text_message,
                   agent_is_reevaluating, highest_content_index, active_content_indices,
                   thinking_status_set, status_collapsed_on_response,
                   thinking_placeholders, missing_table_warning, error_event_seen,
                   annotated, arrived_tables, arrived_charts,
                   received_message_id>>

\* a frame whose data is not JSON (continue), and case _ / "response" /
\* "response.text" / "execution_trace", which only log
\* case _ whose debug branch raises
UnknownEventRaisingInDebug(debug) ==
    /\ InLoop
    /\ IF debug
       THEN /\ ExceptReturn("exception")
            /\ UNCHANGED <<session_vars, debug_mode, current_request_id, buffers,
                           bot_text_message, agent_is_reevaluating, highest_content_index,
                           active_content_indices, thinking_status_set,
                           status_collapsed_on_response, thinking_placeholders,
                           missing_table_warning, error_event_seen, annotated,
                           arrived_tables, arrived_charts,
                   received_message_id>>
       ELSE /\ Dispatched
            /\ UNCHANGED <<session_vars, local_vars, history_vars>>

\* with debug set the event is logged and appended to the debug record of the
\* call, which is stored at the end of the stream; nothing else is touched
unknown_event(debug) ==
    /\ InLoop
    /\ Dispatched
    /\ UNCHANGED <<session_vars, local_vars, history_vars>>

SkippedFrame == unknown_event(debug_mode)

\* a frame of a known event whose data is JSON but not an object: from_json
\* raises; and a read error of the response stream raised by the iterator
RaisingFrame(how) ==
    /\ InLoop
    /\ ExceptReturn(how)
    /\ UNCHANGED <<debug_mode,
                   missing_table_warning,
                   session_vars, current_request_id, buffers, bot_text_message,
                   agent_is_reevaluating, highest_content_index, active_content_indices,
                   thinking_status_set, status_collapsed_on_response,
                   thinking_placeholders, error_event_seen, annotated, arrived_tables,
                   arrived_charts,
                   received_message_id>>

\* --------------------------------------------------------------- finalization
\* the loop "for content_key, buffer_content in buffers.items()" of case
\* "response.done" and of the fallback after the loop: resolve the buffers of
\* the current request that hold citation markup and render them by a plain
\* lookup content_map[content_key]; raised says the lookup was a KeyError
RECURSIVE FinalizeBuffers(_, _, _, _, _, _)
FinalizeBuffers(bufs, request_id, cm, map, cnt, cits) ==
    IF bufs = <<>> THEN [raised |-> FALSE, content_map |-> cm, mapping |-> map, counter |-> cnt]
    ELSE LET content_key == Head(bufs)[1]
             buffer_content == Head(bufs)[2]
         IN  IF content_key[1] = request_id /\ HasCitationMarkup(buffer_content)
             THEN LET p == process_citation_ids_in_text(buffer_content, map, cnt, cits)
                  IN  IF cm[content_key].kind = "absent"
                      THEN [raised |-> TRUE, content_map |-> cm,
                            mapping |-> p.mapping, counter |-> p.counter]
                      ELSE FinalizeBuffers(Tail(bufs), request_id,
                                           [cm EXCEPT ![content_key] = MarkdownSlot(p.text)],
                                           p.mapping, p.counter, cits)
             ELSE FinalizeBuffers(Tail(bufs), request_id, cm, map, cnt, cits)

\* what follows the loop: the final status update, the fallback finalization
\* and the processing of bot_text_message for the return value, or the except block
PostLoop(cm, map, cnt) ==
    LET f == FinalizeBuffers(buffers, current_request_id, cm, map, cnt, tool_result_citations)
        p == process_citation_ids_in_text(bot_text_message, f.mapping, f.counter,
                                          tool_result_citations)
    IN  IF f.raised
        THEN [raised |-> TRUE, content_map |-> f.content_map, mapping |-> f.mapping,
              counter |-> f.counter, final |-> bot_text_message, status |-> StatusFailed]
        ELSE [raised |-> FALSE, content_map |-> f.content_map,
              mapping |-> IF HasCitationMarkup(bot_text_message) THEN p.mapping ELSE f.mapping,
              counter |-> IF HasCitationMarkup(bot_text_message) THEN p.counter ELSE f.counter,
              final |-> IF HasCitationMarkup(bot_text_message) THEN p.text ELSE bot_text_message,
              status |-> StatusCompleted]

\* response.done returning the accumulated text at once, in place of the break
DoneResultReturningAtOnce ==
    LET f == FinalizeBuffers(buffers, current_request_id, content_map, citation_mapping,
                             citation_counter, tool_result_citations)
    IN  [raised |-> f.raised, content_map |-> f.content_map, mapping |-> f.mapping,
         counter |-> f.counter, final |-> bot_text_message,
         status |-> IF f.raised THEN StatusFailed ELSE StatusCompleted]

\* case "response.done", its break, and what follows the loop
DoneResult ==
    LET f == FinalizeBuffers(buffers, current_request_id, content_map, citation_mapping,
                             citation_counter, tool_result_citations)
    IN  IF f.raised
        THEN [raised |-> TRUE, content_map |-> f.content_map, mapping |-> f.mapping,
              counter |-> f.counter, final |-> bot_text_message, status |-> StatusFailed]
        ELSE PostLoop(f.content_map, f.mapping, f.counter)

\* the frames end without response.done: only what follows the loop
EndResult == PostLoop(content_map, citation_mapping, citation_counter)

\* _handle_missing_table_references: the warning is shown when the flag of
\* the current response id is set and no table is stored under that id
_handle_missing_table_references ==
    /\ current_response_id \in request_table_referenced
    /\ Len(get_request_items(request_tables, current_response_id)) = 0

finish_stream(r, how, debug) ==
    /\ content_map' = r.content_map
    /\ citation_mapping' = r.mapping
    /\ citation_counter' = r.counter
    /\ final_text' = r.final
    /\ status' = r.status
    /\ pc' = "returned"
    /\ ended_by' = (IF r.raised THEN "exception" ELSE how)
    /\ missing_table_warning' =
         (IF r.raised THEN missing_table_warning
          ELSE _handle_missing_table_references)
    /\ UNCHANGED <<debug_mode,
                   current_response_tables, current_response_charts, request_table_referenced,
                   request_tables, request_charts, current_response_id,
                   current_assistant_message_id, tool_result_citations, thread_messages,
                   current_request_id, buffers, bot_text_message, agent_is_reevaluating,
                   highest_content_index, active_content_indices, thinking_status_set,
                   status_collapsed_on_response, thinking_placeholders, request_no,
                   annotated, arrived_tables, arrived_charts,
                   thread_tool_results, streaming_citations, received_message_id>>

\* "Store consolidated debug data if debug mode is enabled", reached when
\* nothing raised
Return(r, how) ==
    /\ finish_stream(r, how, debug_mode)
    /\ debug_consolidated_response' =
         (IF debug_mode /\ ~r.raised THEN TRUE ELSE debug_consolidated_response)

\* a response.done frame
Done ==
    /\ pc = "loop"
    /\ Return(DoneResult, "done")
    /\ nframes' = nframes + 1
    /\ UNCHANGED error_event_seen

\* a top-level error frame handled like response.error: no break
ErrorEventWithoutBreak ==
    /\ InLoop
    /\ status' = StatusError
    /\ error_event_seen' = TRUE
    /\ ended_by' = "error"
    /\ nframes' = nframes + 1
    /\ UNCHANGED <<debug_mode,
                   missing_table_warning,
                   session_vars, current_request_id, buffers, bot_text_message,
                   agent_is_reevaluating, highest_content_index, active_content_indices,
                   thinking_status_set, status_collapsed_on_response,
                   thinking_placeholders, pc, request_no, final_text, annotated,
                   arrived_tables, arrived_charts,
                   received_message_id>>

\* a top-level error frame: the status turns to error, break
ErrorEvent ==
    /\ pc = "loop"
    /\ Return(EndResult, "error")
    /\ nframes' = nframes + 1
    /\ error_event_seen' = TRUE

\* the response stream ends without response.done
EndOfStream ==
    /\ pc = "loop"
    /\ Return(EndResult, "end")
    /\ UNCHANGED <<nframes, error_event_seen>>

\* ------------------------------------------------------------ materialisation
\* generate_citation_html_for_processed_content: the items, by display number
RECURSIVE OrderedCitations(_, _, _)
OrderedCitations(numbers, map, cits) ==
    IF numbers = {} THEN <<>>
    ELSE LET citation_number == CHOOSE n \in numbers : \A m \in numbers : n <= m
             citation_id == CHOOSE c \in CiteIds : map[c] = citation_number
             rest == OrderedCitations(numbers \ {citation_number}, map, cits)
         IN  IF cits[citation_id].present /\ cits[citation_id].doc_id
                /\ cits[citation_id].doc_title # ""
             THEN <<[n |-> citation_number, id |-> citation_id]>> \o rest
             ELSE rest

\* a block that lists whatever the tool citation store holds
RECURSIVE ListStored(_, _, _)
ListStored(ids, map, cits) ==
    IF ids = {} THEN <<>>
    ELSE LET c == CHOOSE x \in ids : TRUE
         IN  <<[n |-> map[c], id |-> c]>> \o ListStored(ids \ {c}, map, cits)

EveryStoredCitation(map, cits) ==
    ListStored({c \in CiteIds : cits[c].present}, map, cits)

generate_citation_html_for_processed_content(map, cits) ==
    IF (\E c \in CiteIds : map[c] # 0) /\ (\E c \in CiteIds : cits[c].present)
    THEN OrderedCitations({map[c] : c \in {d \in CiteIds : map[d] # 0}}, map, cits)
    ELSE <<>>

\* display_post_completion_citations: the items of the live citations block.
\* With a numbering and tool citations it lists the numbered citations; else
\* it falls back to the legacy list, whose documentation entries are numbered
\* by their position; else it shows nothing
display_post_completion_citations(map, cits, collected) ==
    IF (\E c \in CiteIds : map[c] # 0) /\ (\E c \in CiteIds : cits[c].present)
    THEN OrderedCitations({map[c] : c \in {d \in CiteIds : map[d] # 0}}, map, cits)
    ELSE IF collected # <<>>
    THEN [i \in 1..Len(collected) |-> [n |-> i, id |-> collected[i].citation_type]]
    ELSE <<>>

\* "Locate the most recent request containing tables": the last key of the
\* dict whose list is not empty, else the current response id
RECURSIVE LastWithContent(_)
LastWithContent(items) ==
    IF items = <<>> THEN NoResponseId
    ELSE IF items[Len(items)][2] # <<>> THEN items[Len(items)][1]
    ELSE LastWithContent(SubSeq(items, 1, Len(items) - 1))

EffectiveRequestId(items, current) ==
    IF LastWithContent(items) # NoResponseId THEN LastWithContent(items) ELSE current

\* the citation section as text: one entry per listed citation
CitationSection(listed) ==
    [i \in 1..Len(listed) |->
        [t |-> "entry", id |-> listed[i].id, n |-> listed[i].n, doc |-> "", src |-> ""]]

ItemBlocks(type, items) == [i \in 1..Len(items) |-> [type |-> type, body |-> items[i]]]

\* a materialization that stores the charts ahead of the tables
StoreChartsFirst(processed_text, tables, charts) ==
    (IF processed_text # <<>> THEN <<[type |-> "text", body |-> processed_text]>> ELSE <<>>)
    \o ItemBlocks("chart", charts) \o ItemBlocks("table", tables)

\* Message.store_processed_content: the processed text, then the tables, then
\* the charts
store_processed_content(processed_text, tables, charts) ==
    (IF processed_text # <<>> THEN <<[type |-> "text", body |-> processed_text]>> ELSE <<>>)
    \o ItemBlocks("table", tables) \o ItemBlocks("chart", charts)

\* a redisplay that shows the raw content of the message
DisplayRawContent(message) == message.content

\* Message.get_display_content: the processed content once the message is
\* processed, the raw content otherwise
get_display_content(message) ==
    IF message.is_processed THEN message.processed_content ELSE message.content

\* process_new_message_with_thread after stream_events_realtime returned
Materialize ==
    /\ pc = "returned"
    /\ pc' = "idle"
    /\ IF final_text # <<>>
       THEN /\ LET tables_data == get_request_items(request_tables,
                                   EffectiveRequestId(request_tables, current_response_id))
                    charts_data == get_request_items(request_charts,
                                   EffectiveRequestId(request_charts, current_response_id))
                    citation_html == generate_citation_html_for_processed_content(
                                         citation_mapping, tool_result_citations)
                    complete_processed_text == final_text \o CitationSection(citation_html)
               IN  thread_messages' = Append(thread_messages,
                     [text |-> final_text,
                      tables |-> tables_data,
                      charts |-> charts_data,
                      citations |-> citation_html,
                      content |-> <<[type |-> "text", body |-> final_text]>>
                                  \o ItemBlocks("table", tables_data)
                                  \o ItemBlocks("chart", charts_data),
                      is_processed |-> TRUE,
                      processed_content |-> store_processed_content(
                                                complete_processed_text, tables_data, charts_data),
                      id |-> current_assistant_message_id,
                      req |-> request_no])
            /\ current_assistant_message_id' = NoMessageId
       ELSE UNCHANGED <<thread_messages, current_assistant_message_id>>
    /\ UNCHANGED <<debug_consolidated_response,
                   current_response_tables, current_response_charts, request_table_referenced,
                   content_map, request_tables, request_charts, current_response_id,
                   citation_mapping, citation_counter, tool_result_citations,
                   thread_tool_results, streaming_citations,
                   local_vars, request_no, nframes, final_text, history_vars>>

\* ------------------------------------------------------------ specification
TextChunks == {<<Word>>} \cup {<<CiteTag(c)>> : c \in CiteIds}
TextChunksWithPhrase == TextChunks \cup {<<TablePhrase>>}

\* every frame the consumer distinguishes, with every input
Next ==
    \/ \E h \in BOOLEAN, d \in BOOLEAN : StartRequest(h, d)
    \/ \E s \in {"reevaluating_plan", "planning"} : StatusEvent(s)
    \/ \E i \in ContentIndices, t \in TextChunksWithPhrase : TextDelta(i, t)
    \/ \E i \in ContentIndices, t \in TextChunks : ThinkingDelta(i, t)
    \/ \E c \in CiteIds, ht \in BOOLEAN, hd \in BOOLEAN : TextAnnotation(c, ht, hd)
    \/ \E cs \in SUBSET CiteIds, e \in BOOLEAN, ts \in {"success", "error"} : ToolResult(cs, e, ts)
    \/ \E i \in ContentIndices : TableEvent(i, "table")
    \/ \E i \in ContentIndices : ChartEvent(i, "chart")
    \/ \E i \in ContentIndices : TableFrames(i, "table", BurstLength)
    \/ \E i \in ContentIndices : ChartFrames(i, "chart", BurstLength)
    \/ \E i \in ContentIndices : AnalystDelta(i, <<Word>>)
    \/ \E i \in ContentIndices : SqlExplanationDelta(i, <<Word>>)
    \/ \E t \in ToolUseIds, ts \in {"success", "error"} : ToolResultFor(t, ts)
    \/ \E m \in MessageIds : Metadata(m)
    \/ ResponseError
    \/ SkippedFrame
    \/ \E how \in {"exception", "network"} : RaisingFrame(how)
    \/ Done
    \/ ErrorEvent
    \/ EndOfStream
    \/ Materialize

Spec == Init /\ [][Next]_vars

\* The same actions over the frames of one concern each: two requests of
\* MaxFrames frames over every frame kind at once are beyond exhaustive search.

\* buffers and rendered slots: text, thinking, analyst, table and status frames
NextSlots ==
    \/ \E h \in BOOLEAN : StartRequest(h, FALSE)
    \/ StatusEvent("reevaluating_plan")
    \/ \E i \in ContentIndices, t \in {<<Word>>, <<CiteTag("cs_a")>>} : TextDelta(i, t)
    \/ ThinkingDelta(0, <<Word>>)
    \/ TableEvent(0, "table")
    \/ AnalystDelta(0, <<Word>>)
    \/ Done
    \/ ErrorEvent
    \/ EndOfStream
    \/ Materialize

SpecSlots == Init /\ [][NextSlots]_vars

\* citations: text and thinking with tags, annotations, tool results, failures
NextCite ==
    \/ \E h \in BOOLEAN : StartRequest(h, FALSE)
    \/ \E t \in TextChunks : TextDelta(0, t)
    \/ ThinkingDelta(1, <<CiteTag("cs_a")>>)
    \/ \E c \in CiteIds, hd \in BOOLEAN : TextAnnotation(c, TRUE, hd)
    \/ \E c \in CiteIds : ToolResult({c}, FALSE, "success")
    \/ \E how \in {"exception", "network"} : RaisingFrame(how)
    \/ Done
    \/ ErrorEvent
    \/ EndOfStream
    \/ Materialize

SpecCite == Init /\ [][NextCite]_vars

\* the turn: tables, charts, message ids, error frames, the visible status
NextTurn ==
    \/ \E h \in BOOLEAN : StartRequest(h, FALSE)
    \/ \E i \in ContentIndices : TextDelta(i, <<Word>>)
    \/ \E e \in BOOLEAN, ts \in {"success", "error"} : ToolResult({}, e, ts)
    \/ TableEvent(0, "table")
    \/ ChartEvent(0, "chart")
    \/ \E m \in MessageIds : Metadata(m)
    \/ ResponseError
    \/ SkippedFrame
    \/ Done
    \/ ErrorEvent
    \/ EndOfStream
    \/ Materialize

SpecTurn == Init /\ [][NextTurn]_vars

\* text with table phrases and citations, tool results, tables and charts
NextTables ==
    \/ \E h \in BOOLEAN : StartRequest(h, FALSE)
    \/ \E t \in {<<Word>>, <<TablePhrase>>, <<CiteTag("cs_a")>>} : TextDelta(0, t)
    \/ \E e \in BOOLEAN : ToolResult({"cs_a"}, e, "success")
    \/ TableEvent(0, "table")
    \/ ChartEvent(1, "chart")
    \/ RaisingFrame("exception")
    \/ Done
    \/ EndOfStream
    \/ Materialize

SpecTables == Init /\ [][NextTables]_vars

\* long runs of table and chart frames
NextRuns ==
    \/ \E h \in BOOLEAN : StartRequest(h, FALSE)
    \/ TextDelta(0, <<Word>>)
    \/ \E e \in BOOLEAN : ToolResult({}, e, "success")
    \/ TableEvent(0, "table")
    \/ ChartEvent(1, "chart")
    \/ TableFrames(0, "table", BurstLength)
    \/ ChartFrames(1, "chart", BurstLength)
    \/ Done
    \/ Materialize

SpecRuns == Init /\ [][NextRuns]_vars

\* calls with the debug flag set and cleared
NextDebug ==
    \/ \E h \in BOOLEAN, d \in BOOLEAN : StartRequest(h, d)
    \/ \E t \in {<<Word>>, <<CiteTag("cs_a")>>} : TextDelta(0, t)
    \/ \E e \in BOOLEAN, ts \in {"success", "error"} : ToolResult({"cs_a"}, e, ts)
    \/ SkippedFrame
    \/ Done
    \/ ErrorEvent
    \/ EndOfStream
    \/ Materialize

SpecDebug == Init /\ [][NextDebug]_vars

\* requests whose tool result frames carry a tool_use_id
NextThread ==
    \/ \E h \in BOOLEAN : StartRequest(h, FALSE)
    \/ \E c \in CiteIds : TextDelta(0, <<CiteTag(c)>>)
    \/ \E t \in ToolUseIds, ts \in {"success", "error"} : ToolResultFor(t, ts)
    \/ \E t \in ToolUseIds \cup {NoToolUseId} :
          tool_result({"cs_a"}, FALSE, "success", t, debug_mode)
    \/ Done \/ EndOfStream \/ Materialize

SpecThread == Init /\ [][NextThread]_vars

\* requests made of the four kinds of delta frames
NextDeltas ==
    \/ \E h \in BOOLEAN : StartRequest(h, FALSE)
    \/ StatusEvent("reevaluating_plan")
    \/ \E i \in ContentIndices : TextDelta(i, <<Word>>)
    \/ \E i \in ContentIndices : ThinkingDelta(i, <<Word>>)
    \/ \E i \in ContentIndices : AnalystDelta(i, <<Word>>)
    \/ \E i \in ContentIndices : SqlExplanationDelta(i, <<Word>>)
    \/ Done \/ EndOfStream \/ Materialize

SpecDeltas == Init /\ [][NextDeltas]_vars

\* ------------------------------------------------------------------ properties
BufferOf(key) == DictGet(buffers, key, <<>>)

\* C1: no step of the running request changes or clears a rendered slot whose
\* key carries another request id, whatever the content index; the buffers of
\* the running request hold keys of that request only and nothing but the
\* text its own frames brought (request B reads back "world", never
\* "helloworld").
C1_SlotIsolation ==
    [][/\ \A k \in AllKeys :
            k[1] # current_request_id' => content_map'[k] = content_map[k]
       /\ \A j \in 1..Len(buffers') :
            /\ buffers'[j][1][1] = current_request_id'
            /\ Len(buffers'[j][2]) <= nframes']_vars

\* request 1 left two words in its slot of index 0; request 2 wrote one word
\* to index 0, cleared its own draft on re-evaluation and went on at index 1
C1_Witness ==
    /\ request_no = 2
    /\ current_request_id = HeaderRequestId(2)
    /\ content_map[ContentKey(HeaderRequestId(1), 0)] = MarkdownSlot(<<Word, Word>>)
    /\ content_map[ContentKey(HeaderRequestId(2), 0)] = EmptySlot
    /\ BufferOf(ContentKey(HeaderRequestId(2), 0)) = <<>>
    /\ BufferOf(ContentKey(HeaderRequestId(2), 1)) = <<Word>>

\* the step of a text delta that found the re-evaluation flag set and a
\* content index above the highest one of the request's text deltas
ReevaluationClear ==
    agent_is_reevaluating /\ ~agent_is_reevaluating' /\ request_no' = request_no

\* C2: when a text delta follows status(reevaluating_plan) with a content
\* index above every index seen in the request, every buffer of the request
\* at an earlier content index is empty when the delta has been appended, the
\* accumulated response text holds the new delta only, the flag is cleared,
\* and the slots of other requests are unchanged.
C2_ReevaluationClear ==
    [][(/\ ReevaluationClear
        /\ \A j \in 1..Len(buffers) : buffers[j][1][2] < highest_content_index') =>
         /\ \A j \in 1..Len(buffers') :
              buffers'[j][1][2] < highest_content_index' => buffers'[j][2] = <<>>
         /\ bot_text_message' \in TextChunks
         /\ ~agent_is_reevaluating'
         /\ \A k \in AllKeys :
              k[1] # current_request_id => content_map'[k] = content_map[k]]_vars

\* text-delta(0), status(reevaluating_plan), text-delta(1): the draft is gone
C2_Witness ==
    /\ pc = "loop"
    /\ nframes = 3
    /\ ~agent_is_reevaluating
    /\ highest_content_index = 1
    /\ active_content_indices = {1}
    /\ BufferOf(ContentKey(current_request_id, 0)) = <<>>
    /\ DictHas(buffers, ContentKey(current_request_id, 0))
    /\ bot_text_message = <<Word>>

\* the ids a step numbers for the first time
NewlyNumbered == {c \in CiteIds : citation_mapping[c] = 0 /\ citation_mapping'[c] # 0}

MarkupKeys ==
    {buffers[j][1] : j \in {i \in 1..Len(buffers) :
        buffers[i][1][1] = current_request_id /\ HasCitationMarkup(buffers[i][2])}}

TurnMaterialized ==
    /\ pc = "idle"
    /\ thread_messages # <<>>
    /\ thread_messages[Len(thread_messages)].req = request_no

LastTurn == thread_messages[Len(thread_messages)]

BlockIds(turn) == {turn.citations[i].id : i \in 1..Len(turn.citations)}

\* the ids whose placeholder tag stands in the text of the request: in its
\* accumulated response text or in one of its buffers
ReferencedIds ==
    TagIds(bot_text_message) \cup UNION {TagIds(buffers[j][2]) : j \in 1..Len(buffers)}

RegisteredIds ==
    {c \in CiteIds : tool_result_citations[c].present /\ tool_result_citations[c].doc_id}

UnresolvedSlots ==
    {k \in MarkupKeys : cite_matches(content_map[k].body) # <<>>}

\* C7: however the stream ended (response.done, a top-level error frame, the
\* end of the frames, a read error of the connection), the placeholder tags
\* in the buffers' slots and in the returned text are resolved when
\* stream_events_realtime has returned.
C7_SameFinalizationOnEveryEnd ==
    (pc = "returned" /\ ended_by \in {"done", "error", "end", "network"}) =>
      /\ cite_matches(final_text) = <<>>
      /\ UnresolvedSlots = {}

\* the three ends that leave the loop by break or exhaustion do resolve
C7_Witness ==
    /\ pc = "returned"
    /\ ended_by = "error"
    /\ HasCitationMarkup(bot_text_message)
    /\ MarkupKeys # {}
    /\ cite_matches(final_text) = <<>>
    /\ UnresolvedSlots = {}

IsPrefix(a, b) == Len(a) <= Len(b) /\ SubSeq(b, 1, Len(a)) = a

\* C8: when dispatching a frame, reading the stream or finalizing raises,
\* stream_events_realtime still returns: the value is the text accumulated so
\* far, the status is "Request failed" in state error, every buffer keeps
\* its text and every rendered slot keeps content of the same kind and length.
C8_ExceptionContained ==
    [][(pc = "loop" /\ pc' = "returned" /\ ended_by' \in {"exception", "network"}) =>
         /\ status' = StatusFailed
         /\ final_text' = bot_text_message
         /\ \A j \in 1..Len(buffers) :
              buffers'[j][1] = buffers[j][1] /\ IsPrefix(buffers[j][2], buffers'[j][2])
         /\ \A k \in AllKeys :
              content_map[k].kind \in {"markdown", "table", "chart"} =>
                /\ content_map'[k].kind = content_map[k].kind
                /\ Len(content_map'[k].body) = Len(content_map[k].body)]_vars

\* a read error after two text deltas: the text is returned, the slot stays
C8_Witness ==
    /\ pc = "returned"
    /\ ended_by = "network"
    /\ status = StatusFailed
    /\ Len(final_text) = 2
    /\ content_map[ContentKey(current_request_id, 0)] = MarkdownSlot(bot_text_message)

\* C6: the tables and charts of a materialized turn are those its own
\* request stored; taken in the case the spec singles out: a turn whose
\* request stored no table has no table block, and likewise for charts,
\* whatever earlier requests of the thread stored.
C6_TurnHoldsOwnTablesAndCharts ==
    TurnMaterialized =>
      /\ arrived_tables = <<>> => LastTurn.tables = <<>>
      /\ arrived_charts = <<>> => LastTurn.charts = <<>>

\* a first turn with the one table and the one chart its request received
C6_Witness ==
    /\ TurnMaterialized
    /\ request_no = 1
    /\ Len(arrived_tables) = 1
    /\ Len(arrived_charts) = 1
    /\ LastTurn.tables = arrived_tables
    /\ LastTurn.charts = arrived_charts

\* C9: once response.done or a top-level error frame was processed, the loop
\* has stopped: no further frame of the stream is dispatched, and buffers,
\* citation mapping and counter, table and chart lists stay as they are; the
\* captured message id changes only when the turn is materialized.
C9_LoopStopsAfterDoneOrError ==
    [][(ended_by \in {"done", "error"} /\ request_no' = request_no) =>
         /\ pc # "loop"
         /\ nframes' = nframes
         /\ UNCHANGED <<buffers, bot_text_message, citation_mapping, citation_counter,
                        request_tables, request_charts>>
         /\ current_assistant_message_id' # current_assistant_message_id =>
              pc = "returned" /\ pc' = "idle"]_vars

\* a top-level error frame ended a stream that could have taken more frames;
\* text, a table and a message id were there, and the turn was materialized
C9_Witness ==
    /\ TurnMaterialized
    /\ ended_by = "error"
    /\ nframes < MaxFrames
    /\ buffers # <<>>
    /\ LastTurn.text = bot_text_message

\* C10: when a top-level error frame or a response.error frame was processed,
\* the status shown when stream_events_realtime returns is the failed one.
C10_ErrorMarksTurnFailed ==
    (pc = "returned" /\ error_event_seen) => status.state = "error"

\* C11 as stated: once a response.error frame was processed, no further
\* frame of the stream is dispatched.
C11_ResponseErrorStopsStream ==
    [][(error_event_seen /\ pc = "loop") => nframes' = nframes]_vars

\* the step that processes the first error frame of a request
FirstErrorFrame == ~error_event_seen /\ error_event_seen' /\ request_no' = request_no

\* C11, amended: only the top-level error frame stops consumption.  A
\* response.error frame sets the status to "Request failed" and changes
\* nothing else; the loop goes on and the frames that follow are dispatched.
C11_OnlyTopLevelErrorStops ==
    [][FirstErrorFrame =>
         \/ pc' = "returned" /\ ended_by' \in {"error", "exception"}
         \/ /\ pc' = "loop"
            /\ status' = StatusFailed
            /\ nframes' = nframes + 1
            /\ UNCHANGED <<session_vars, buffers, bot_text_message, final_text>>]_vars

\* a text delta dispatched after response.error: its status update replaced
\* the failed status, its text is in the buffer
C11_Witness ==
    /\ pc = "loop"
    /\ error_event_seen
    /\ status = StatusDelivering
    /\ nframes = 2
    /\ bot_text_message = <<Word>>

\* C12: when response.done has been processed, every placeholder tag in the
\* rendered buffers of the request and in the returned text is replaced by
\* the link with the display number of its id: no tag remains.
C12_DoneResolvesEveryTag ==
    [][Done =>
         /\ TagIds(final_text') = {}
         /\ \A k \in MarkupKeys :
              content_map'[k].kind = "markdown" => TagIds(content_map'[k].body) = {}]_vars

\* tool-result(cs_a), text-delta(0, word), text-delta(0, tag of cs_a), done:
\* the returned text is the word and the link [1], the block lists [1] cs_a
C12_Witness ==
    /\ TurnMaterialized
    /\ ended_by = "done"
    /\ bot_text_message = <<Word, CiteTag("cs_a")>>
    /\ LastTurn.text = <<Word, CitationLink(1, "tool title", "cs_a")>>
    /\ LastTurn.citations = <<[n |-> 1, id |-> "cs_a"]>>
    /\ content_map[ContentKey(current_request_id, 0)] = MarkdownSlot(LastTurn.text)

\* C13: within a request the status becomes "Agent is thinking..." on the
\* first thinking delta and on no later one: a later thinking delta leaves
\* the status as it is, and no other step of the request moves it to thinking.
C13_ThinkingStatusOnce ==
    [][request_no' = request_no =>
         /\ thinking_status_set => thinking_status_set'
         /\ (\E i \in ContentIndices, t \in TextChunks : ThinkingDelta(i, t)) =>
              IF thinking_status_set THEN status' = status ELSE status' = StatusThinking
         /\ (status' = StatusThinking /\ status # StatusThinking) =>
              ~thinking_status_set /\ thinking_status_set']_vars

\* two thinking deltas and one text delta on the same content index: the
\* status has moved on to delivering and no thinking delta took it back
C13_Witness ==
    /\ pc = "loop" /\ nframes = 3
    /\ bot_text_message = <<Word>>
    /\ thinking_status_set
    /\ status = StatusDelivering
    /\ BufferOf(ContentKey(current_request_id, 0)) = <<Word, Word, Word>>

\* what a block of the stored list is: a table, a chart, resolved text, the
\* citation section alone, or text with the citation section inside it
BlockKind(b) ==
    IF b.type # "text" THEN b.type
    ELSE IF \A i \in 1..Len(b.body) : b.body[i].t = "entry" THEN "citations"
    ELSE IF \E i \in 1..Len(b.body) : b.body[i].t = "entry" THEN "text with citations"
    ELSE "text"

BlockRank(b) ==
    CASE BlockKind(b) = "text" -> 1
      [] BlockKind(b) = "table" -> 2
      [] BlockKind(b) = "chart" -> 3
      [] BlockKind(b) = "citations" -> 4
      [] OTHER -> 0

\* C14 as stated: the stored list of a turn with tables and citations is
\* text blocks, then table blocks, then chart blocks, then the citations block.
C14_CitationsBlockLast ==
    (TurnMaterialized /\ LastTurn.tables # <<>> /\ LastTurn.citations # <<>>) =>
        LET b == LastTurn.processed_content
        IN  /\ \A i \in 1..Len(b) : BlockRank(b[i]) # 0
            /\ \A i, j \in 1..Len(b) : i < j => BlockRank(b[i]) <= BlockRank(b[j])
            /\ BlockKind(b[Len(b)]) = "citations"

\* C14, amended: the stored list is one text block, the resolved text with
\* the citation section at its end, then the table blocks in stored order,
\* then the chart blocks in stored order; no block follows the charts.
C14_TextWithCitationsThenTablesThenCharts ==
    TurnMaterialized =>
        LET b == LastTurn.processed_content
            nt == Len(LastTurn.tables)
            nc == Len(LastTurn.charts)
            body == b[1].body
            ntext == Len(LastTurn.text)
        IN  /\ Len(b) = 1 + nt + nc
            /\ b[1].type = "text"
            /\ Len(body) = ntext + Len(LastTurn.citations)
            /\ \A i \in 1..Len(body) :
                 IF i <= ntext THEN body[i] = LastTurn.text[i]
                 ELSE /\ body[i].t = "entry"
                      /\ body[i].id = LastTurn.citations[i - ntext].id
                      /\ body[i].n = LastTurn.citations[i - ntext].n
            /\ \A i \in 1..nt : b[1 + i] = [type |-> "table", body |-> LastTurn.tables[i]]
            /\ \A i \in 1..nc : b[1 + nt + i] = [type |-> "chart", body |-> LastTurn.charts[i]]

\* a turn with a resolved citation, a table and a chart
C14_Witness ==
    /\ TurnMaterialized
    /\ LastTurn.citations # <<>>
    /\ LastTurn.tables # <<>>
    /\ LastTurn.charts # <<>>
    /\ \E i \in 1..Len(LastTurn.text) : LastTurn.text[i].t = "link"

\* C15: the table list and the chart list of every request hold at most ten
\* entries each.
C15_RequestListsCapped ==
    /\ \A i \in 1..Len(request_tables) : Len(request_tables[i][2]) <= AccumulationLimit
    /\ \A i \in 1..Len(request_charts) : Len(request_charts[i][2]) <= AccumulationLimit

\* twelve table frames of one request: the legacy list was cut to its last
\* five before the twelfth was added, the list of the request holds all twelve
C15_Witness ==
    /\ pc = "loop"
    /\ Len(get_request_items(request_tables, current_request_id)) = BurstLength + 1
    /\ Len(current_response_tables) = KeptAfterTrim + 1

ItemsOf(list) == {list[i] : i \in 1..Len(list)}

\* C16: a table embedded in a tool result is stored in the same list as the
\* tables of the response.table frames of its request, and the turn of the
\* request holds both.
C16_EmbeddedStoredWithNative ==
    /\ (pc = "loop" /\ arrived_tables # <<>>) =>
          \E i \in 1..Len(request_tables) :
              ItemsOf(arrived_tables) \subseteq ItemsOf(request_tables[i][2])
    /\ TurnMaterialized => ItemsOf(arrived_tables) \subseteq ItemsOf(LastTurn.tables)

\* the first request received an embedded table and then a native one: they
\* lie under two keys and the turn holds the native one alone
C16_Witness ==
    /\ TurnMaterialized
    /\ request_no = 1
    /\ arrived_tables = <<Payload("embedded"), Payload("table")>>
    /\ Len(request_tables) = 2
    /\ LastTurn.tables = <<Payload("table")>>

\* C17: when the stream has ended without an exception, the table warning is
\* on the page exactly when the streamed text held a table reference phrase
\* and the request rendered no table; the warning leaves the status completed.
C17_WarningIffPhraseAndNoTable ==
    (pc = "returned" /\ ended_by \in {"done", "end", "error"}) =>
        /\ missing_table_warning <=>
             (detect_table_reference(bot_text_message) /\ arrived_tables = <<>>)
        /\ status = StatusCompleted

\* a phrase and no table: the warning is shown, the status is completed and
\* the returned text is the streamed text
C17_Witness ==
    /\ pc = "returned" /\ ended_by = "done"
    /\ missing_table_warning
    /\ arrived_tables = <<>>
    /\ status = StatusCompleted
    /\ final_text = bot_text_message

\* C18: a frame whose data is not JSON, or whose event name is not known, is
\* skipped: it changes no session state, no buffer, no status and no text,
\* and the loop goes on with the frame that follows.
C18_SkippedFrameHasNoEffect ==
    [][SkippedFrame =>
         /\ pc' = "loop"
         /\ UNCHANGED <<session_vars, local_vars, final_text, ended_by, error_event_seen>>]_vars

\* three frames were dispatched and two text deltas are all that shows
C18_Witness ==
    /\ pc = "loop" /\ nframes = 3
    /\ bot_text_message = <<Word, Word>>
    /\ status = StatusDelivering
    /\ ~error_event_seen
    /\ arrived_tables = <<>> /\ arrived_charts = <<>>
    /\ current_assistant_message_id = NoMessageId

C21_ThreadToolResultsKept ==
    [][/\ (\E h \in BOOLEAN, d \in BOOLEAN : StartRequest(h, d))
            => UNCHANGED thread_tool_results
       /\ \A t \in ToolUseIds :
            get_thread_tool_result(thread_tool_results, t).present
            => \/ get_thread_tool_result(thread_tool_results', t)
                    = get_thread_tool_result(thread_tool_results, t)
               \/ \E cs \in SUBSET CiteIds, e \in BOOLEAN, ts \in {"success", "error"} :
                    tool_result(cs, e, ts, t, debug_mode)]_vars

\* the second request is running, after its citation reset, and the result
\* the first request stored is still there
C21_Witness ==
    /\ request_no = 2 /\ pc = "loop"
    /\ citation_mapping = EmptyMapping
    /\ thread_messages # <<>> /\ thread_messages[1].citations # <<>>
    /\ get_thread_tool_result(thread_tool_results, "toolu_a")
         = [present |-> TRUE, status |-> "success", req |-> 1]

\* C22: the id of a persisted assistant turn, when it is set, is the message
\* id a metadata frame of that turn's own request carried: it is not the id
\* captured while another request was running.
C22_TurnIdFromOwnRequest ==
    TurnMaterialized =>
        \/ LastTurn.id = NoMessageId
        \/ LastTurn.id = received_message_id

\* a turn whose request received a metadata frame carries that frame's id
C22_Witness ==
    /\ TurnMaterialized
    /\ received_message_id = "m2"
    /\ LastTurn.id = "m2"
    /\ current_assistant_message_id = NoMessageId

\* C23: once a turn is finalized, what get_display_content returns for it is
\* the processed blocks stored at finalization, after every later step:
\* frames, request starts with their citation reset, and later
\* materializations leave it as it was.
C23_FinalizedTurnIsStable ==
    [][\A i \in 1..Len(thread_messages) :
          thread_messages[i].is_processed
          => /\ i <= Len(thread_messages')
             /\ thread_messages'[i].is_processed
             /\ get_display_content(thread_messages'[i])
                  = thread_messages[i].processed_content]_vars

\* a turn stored with a citations section is followed by a second turn
\* without one, and its display content is still the processed blocks
C23_Witness ==
    /\ Len(thread_messages) = 2
    /\ thread_messages[1].citations # <<>>
    /\ thread_messages[2].citations = <<>>
    /\ get_display_content(thread_messages[1]) # thread_messages[1].content
    /\ citation_mapping = EmptyMapping

\* C24: while a stream is processed, the session's current request id (the
\* id under which the table-referenced flag, the referenced tool ids and the
\* embedded tables are stored) is the request id of the response header that
\* keys the content slots, not an id generated locally.
C24_SessionIdIsHeaderId ==
    pc = "loop" => current_response_id = current_request_id

\* C25: the buffer of a slot holds the text of the text deltas of that slot
\* since the last re-evaluation clear, in arrival order: a text delta puts
\* its text at the end of the buffer of its slot (of the emptied buffer when
\* it clears), and a thinking, analyst or sql-explanation delta adds to no
\* buffer.
C25_BufferHoldsTextDeltasOnly ==
    [][/\ \A i \in ContentIndices :
            TextDelta(i, <<Word>>)
            => LET key == ContentKey(current_request_id, i)
                   cleared == agent_is_reevaluating /\ i > highest_content_index
               IN  BufferOf(key)' = (IF cleared THEN <<>> ELSE BufferOf(key)) \o <<Word>>
       /\ (\E i \in ContentIndices :
              \/ ThinkingDelta(i, <<Word>>)
              \/ AnalystDelta(i, <<Word>>)
              \/ SqlExplanationDelta(i, <<Word>>))
            => \A k \in AllKeys : BufferOf(k)' = BufferOf(k)]_vars

\* two text deltas of one slot, and the buffer is their two texts
C25_Witness ==
    /\ pc = "loop" /\ nframes = 2
    /\ thinking_placeholders = {}
    /\ bot_text_message = <<Word, Word>>
    /\ BufferOf(ContentKey(current_request_id, 1)) = <<Word, Word>>

\* C26: every step that renders into a slot by looking its key up finds the
\* slot: an analyst delta finds the slot of its key, the final render at
\* done and at the end of the stream finds the slot of every buffer of the
\* request that holds citation markup, and so neither step ends the request
\* in the except block.
C26_DirectLookupFindsSlot ==
    [][/\ \A i \in ContentIndices :
            AnalystDelta(i, <<Word>>)
            => /\ content_map[ContentKey(current_request_id, i)].kind # "absent"
               /\ ended_by' # "exception"
       /\ (Done \/ ErrorEvent \/ EndOfStream)
            => /\ \A k \in MarkupKeys : content_map[k].kind # "absent"
               /\ ended_by' # "exception"]_vars

\* an analyst delta rendered into the slot a text delta had created
C26_Witness ==
    /\ pc = "loop" /\ nframes = 2
    /\ thinking_placeholders = {}
    /\ bot_text_message = <<Word>>
    /\ content_map[ContentKey(current_request_id, 0)] = MarkdownSlot(<<Word, Word>>)

\* C27: when a stream has returned, the citations block persisted with the
\* turn lists the same citations, with the same numbers and in the same
\* order, as the block displayed live at the end of the stream; when one is
\* empty so is the other.
C27_PersistedBlockIsLiveBlock ==
    pc = "returned" /\ ended_by # "exception" /\ ended_by # "network"
    => generate_citation_html_for_processed_content(citation_mapping, tool_result_citations)
        = display_post_completion_citations(citation_mapping, tool_result_citations,
                                            streaming_citations)

\* two numbered citations with tool data: both blocks list them alike
C27_Witness ==
    /\ pc = "returned" /\ ended_by = "done"
    /\ display_post_completion_citations(citation_mapping, tool_result_citations,
                                         streaming_citations)
         = <<[n |-> 1, id |-> "cs_b"], [n |-> 2, id |-> "cs_a"]>>
    /\ generate_citation_html_for_processed_content(citation_mapping, tool_result_citations)
         = <<[n |-> 1, id |-> "cs_b"], [n |-> 2, id |-> "cs_a"]>>

\* C28: while the re-evaluation flag is set, a text delta whose content
\* index is not above the highest index of the request clears nothing: every
\* other buffer and slot is left as it is, its text is appended to the buffer
\* of its slot and to the accumulated text, and the flag stays set.
C28_NoClearAtSeenIndex ==
    [][\A i \in ContentIndices :
          (TextDelta(i, <<Word>>) /\ agent_is_reevaluating /\ i <= highest_content_index)
          => LET key == ContentKey(current_request_id, i)
             IN  /\ BufferOf(key)' = BufferOf(key) \o <<Word>>
                 /\ bot_text_message' = bot_text_message \o <<Word>>
                 /\ agent_is_reevaluating'
                 /\ active_content_indices' = active_content_indices \cup {i}
                 /\ thinking_placeholders' = thinking_placeholders
                 /\ \A k \in AllKeys \ {key} :
                      /\ BufferOf(k)' = BufferOf(k)
                      /\ content_map'[k] = content_map[k]]_vars

\* text-delta(1), status(reevaluating_plan), text-delta(1): the flag is still
\* set and the slot holds both texts
C28_Witness ==
    /\ pc = "loop" /\ nframes = 3
    /\ agent_is_reevaluating
    /\ highest_content_index = 1
    /\ bot_text_message = <<Word, Word>>
    /\ content_map[ContentKey(current_request_id, 1)] = MarkdownSlot(<<Word, Word>>)

\* C29: in every reachable state the request-scoped citation mapping gives
\* different source ids different numbers, and the numbers it holds are
\* exactly 1..counter: none is left out and none is given twice, whatever the
\* order of annotations and placeholder resolutions.
C29_NumberingIsDense ==
    /\ \A c \in CiteIds, d \in CiteIds :
          (citation_mapping[c] # 0 /\ citation_mapping[c] = citation_mapping[d]) => c = d
    /\ {citation_mapping[c] : c \in {d \in CiteIds : citation_mapping[d] # 0}}
         = 1..citation_counter

\* cs_b was numbered by its annotation, cs_a afterwards by the resolution of
\* its tag when the stream ended
C29_Witness ==
    /\ pc = "returned" /\ ended_by = "done"
    /\ annotated = {"cs_b"}
    /\ citation_mapping = [c \in CiteIds |-> IF c = "cs_b" THEN 1 ELSE 2]
    /\ citation_counter = 2

\* C30: two requests of a session share no slot key of the persistent
\* content map: when a request starts, with or without a request id header,
\* the map holds no slot under a key of the starting request, so no frame of
\* it renders into or empties a slot an earlier request created.
C30_RequestsShareNoSlotKey ==
    [][(\E h \in BOOLEAN, d \in BOOLEAN : StartRequest(h, d))
        => \A i \in ContentIndices :
             content_map[ContentKey(current_request_id', i)].kind = "absent"]_vars

\* two requests with a header: each rendered its text into a slot of its own
C30_Witness ==
    /\ request_no = 2 /\ pc = "returned"
    /\ current_request_id = HeaderRequestId(2)
    /\ content_map[ContentKey(HeaderRequestId(1), 0)] = MarkdownSlot(<<Word, Word>>)
    /\ content_map[ContentKey(HeaderRequestId(2), 0)] = MarkdownSlot(<<Word>>)

====
